---------------------------- MODULE Spec2Model ----------------------------
(***************************************************************************)
(* Sudoku tactics and checks: src/sdktactics.py (called "student" below)   *)
(* and src/sdktactics_teacher.py ("teacher").  Both modules keep two       *)
(* globals, groups and progress, and work on the tiles of an               *)
(* sdkboard.Board.  The Tile class (sdkboard) is not among the sources;    *)
(* its operations determine, remove_choices and announce are written from  *)
(* the specification's description of the cell collaborator.               *)
(***************************************************************************)
EXTENDS Integers, Sequences, FiniteSets, TLC

VARIABLES
    impl,       \* which module is loaded: "student" or "teacher"
    iterOrder,  \* the order in which this process iterates a set of digits
    symbol,     \* tile.symbol of every tile of the board
    possible,   \* tile.possible of every tile of the board
    listeners,  \* the tiles progress_listener is registered on
    groups,     \* module global groups (empty before prepare)
    progress,   \* module global progress
    pc,         \* position of the caller / of solve()
    gi,         \* index in groups of the group solve()'s for loop is at
    retval,     \* what the latest good_board() call returned
    dupCount,   \* "duplicate" announcements per tile by the latest good_board()
    calls,      \* history: solve() calls entered so far
    rounds,     \* history: rounds started by the current solve() call
    progRounds, \* history: rounds of the current call that ended with progress
    commits,    \* history: "determined" events during the current solve() call
    placed,     \* history: those of them that came from hidden_single
    init0,      \* history: the board as it was handed to prepare
    conv,       \* history: the board as the latest finished solve() left it
    pre,        \* history: the board as the latest tactic call found it
    round0,     \* history: the board at the top of the current round
    trace,      \* history: the tactic calls of the current round, in order
    refused     \* history: determine calls of this solve() a tile did not act on

vars == <<impl, iterOrder, symbol, possible, listeners, groups, progress, pc, gi, retval,
          dupCount, calls, rounds, progRounds, commits, placed, init0, conv,
          pre, round0, trace, refused>>

---------------------------------------------------------------------------
(* Constants of the program *)

DIGITS == {"1", "2", "3", "4", "5", "6", "7", "8", "9"}

OPEN == "."

\* range(9): rows and columns of the board
Size == 9

\* range(3) and the block corners [0, 3, 6]
BlockSize == 3

Cells == (0 .. Size - 1) \X (0 .. Size - 1)

NoDuplicates == [cell \in Cells |-> 0]

---------------------------------------------------------------------------
(* Bounds of the model *)

\* how many board templates Init draws from
NumTemplates == 3

\* how many iteration orders of a set of digits are tried
NumOrders == 2

\* how many times the caller calls solve()
MaxSolveCalls == 2

---------------------------------------------------------------------------
(* prepare *)

RowGroup(row) == [col \in 1 .. Size |-> <<row, col - 1>>]

ColGroup(col) == [row \in 1 .. Size |-> <<row - 1, col>>]

\* A variant that offsets the column by the block's row
BlockGroupRowOffset(start_row, start_col) ==
    [k \in 1 .. BlockSize * BlockSize |->
        <<start_row + ((k - 1) \div BlockSize), start_row + ((k - 1) % BlockSize)>>]

BlockGroup(start_row, start_col) ==
    [k \in 1 .. BlockSize * BlockSize |->
        <<start_row + ((k - 1) \div BlockSize), start_col + ((k - 1) % BlockSize)>>]

BuildGroups ==
    [row \in 1 .. Size |-> RowGroup(row - 1)]
    \o [col \in 1 .. Size |-> ColGroup(col - 1)]
    \o [b \in 1 .. Size |->
          BlockGroup(BlockSize * ((b - 1) \div BlockSize),
                     BlockSize * ((b - 1) % BlockSize))]

---------------------------------------------------------------------------
(* Tile (sdkboard): events, determine, remove_choices                      *)
(* A board value B is a record                                             *)
(*   symbol, possible : the tiles                                          *)
(*   progress         : the module global                                  *)
(*   determined       : count of "determined" events                       *)
(*   refused          : count of determine calls the tile did not act on   *)
(*   duplicate        : count of "duplicate" events per tile               *)

\* A variant that listens for "determined" only
progress_listener_determined(B, cell, event) ==
    IF event = "determined"
    THEN [B EXCEPT !.progress = TRUE]
    ELSE B

\* A variant that takes every event for progress
progress_listener_any(B, cell, event) == [B EXCEPT !.progress = TRUE]

\* A variant that ignores every event
progress_listener_deaf(B, cell, event) == B

progress_listener(B, cell, event) ==
    IF event = "determined" \/ event = "constrained"
    THEN [B EXCEPT !.progress = TRUE]
    ELSE B

announce(B, cell, event) ==
    LET counted ==
            IF event = "determined"
            THEN [B EXCEPT !.determined = @ + 1]
            ELSE IF event = "duplicate"
            THEN [B EXCEPT !.duplicate[cell] = @ + 1]
            ELSE B
    IN  IF cell \in listeners
        THEN progress_listener(counted, cell, event)
        ELSE counted

determine(B, cell, sym) ==
    IF B.symbol[cell] = OPEN /\ sym \in B.possible[cell]
    THEN announce([B EXCEPT !.symbol[cell] = sym, !.possible[cell] = {}],
                  cell, "determined")
    ELSE [B EXCEPT !.refused = @ + 1]

remove_choices(B, cell, choices) ==
    LET new == B.possible[cell] \ choices
    IN  IF new = B.possible[cell]
        THEN B
        ELSE LET narrowed == announce([B EXCEPT !.possible[cell] = new],
                                      cell, "constrained")
             IN  IF Cardinality(new) = 1
                 THEN determine(narrowed, cell, CHOOSE d \in new : TRUE)
                 ELSE narrowed

---------------------------------------------------------------------------
(* good_board *)
(* A loop is a recursive operator.  What one pass leaves behind is bound to *)
(* a name (next \in {...}) before the following pass starts, so that every  *)
(* pass is evaluated once, on the value the pass before it produced.        *)

Range(seq) == {seq[k] : k \in 1 .. Len(seq)}

\* A variant that leaves out the first tile of the group holding the symbol
SameSymbolButFirst(sym, g, s) ==
    {g[k] : k \in {n \in 1 .. Len(g) :
                     sym[g[n]] = s /\ \E m \in 1 .. n - 1 : sym[g[m]] = s}}

\* the tiles j of group g with j.symbol == sym
SameSymbol(sym, g, s) == {j \in Range(g) : sym[j] = s}

RECURSIVE AnnounceAll(_, _, _)
AnnounceAll(B, tiles, event) ==
    IF tiles = {}
    THEN B
    ELSE LET er == CHOOSE t \in tiles : TRUE
         IN  CHOOSE out \in
               {AnnounceAll(next, tiles \ {er}, event) :
                  next \in {announce(B, er, event)}} : TRUE

\* student, lines 100-110: the loop over the tiles i of one group g;
\* s is the set of digits not yet seen, acc is (good, doubles)
RECURSIVE student_scan(_, _, _, _, _)
student_scan(sym, g, k, s, acc) ==
    IF k > Len(g)
    THEN acc
    ELSE LET i == g[k]
         IN  CHOOSE out \in
               {student_scan(sym, g, k + 1, next[1], next[2]) :
                  next \in
                    {IF sym[i] = OPEN
                     THEN <<s, acc>>
                     ELSE IF sym[i] \in s
                     THEN <<s \ {sym[i]}, acc>>
                     ELSE <<s, [good |-> FALSE,
                                doubles |-> acc.doubles
                                            \cup SameSymbol(sym, g, sym[i])]>>}} : TRUE

RECURSIVE student_groups(_, _, _, _)
student_groups(sym, gs, n, acc) ==
    IF n > Len(gs)
    THEN acc
    ELSE CHOOSE out \in
            {student_groups(sym, gs, n + 1, next) :
                next \in {student_scan(sym, gs[n], 1, DIGITS, acc)}} : TRUE

\* student: "if good: return good", and nothing is returned otherwise
student_return(good) == IF good THEN "True" ELSE "None"

student_good_board(B, gs) ==
    LET acc == student_groups(B.symbol, gs, 1, [good |-> TRUE, doubles |-> {}])
    IN  [ret |-> student_return(acc.good),
         B   |-> AnnounceAll(B, acc.doubles, "duplicate")]

\* A variant that leaves the loop at the first tile holding sym
RECURSIVE teacher_flag_first(_, _, _, _)
teacher_flag_first(B, g, k, sym) ==
    IF k > Len(g)
    THEN B
    ELSE IF B.symbol[g[k]] = sym
    THEN announce(B, g[k], "duplicate")
    ELSE teacher_flag_first(B, g, k + 1, sym)

\* teacher, lines 105-107: announce on every tile of the group holding sym
RECURSIVE teacher_flag(_, _, _, _)
teacher_flag(B, g, k, sym) ==
    IF k > Len(g)
    THEN B
    ELSE CHOOSE out \in
            {teacher_flag(next, g, k + 1, sym) :
                next \in {IF B.symbol[g[k]] = sym
                          THEN announce(B, g[k], "duplicate")
                          ELSE B}} : TRUE

\* teacher, lines 96-107: acc is (ok, B)
RECURSIVE teacher_scan(_, _, _, _)
teacher_scan(g, k, choices, acc) ==
    IF k > Len(g)
    THEN acc
    ELSE LET sym == acc.B.symbol[g[k]]
         IN  CHOOSE out \in
               {teacher_scan(g, k + 1, next[1], next[2]) :
                  next \in
                    {IF sym = OPEN
                     THEN <<choices, acc>>
                     ELSE IF sym \in choices
                     THEN <<choices \ {sym}, acc>>
                     ELSE <<choices, [ok |-> FALSE,
                                      B |-> teacher_flag(acc.B, g, 1, sym)]>>}} : TRUE

RECURSIVE teacher_groups(_, _, _)
teacher_groups(gs, n, acc) ==
    IF n > Len(gs)
    THEN acc
    ELSE CHOOSE out \in
            {teacher_groups(gs, n + 1, next) :
                next \in {teacher_scan(gs[n], 1, DIGITS, acc)}} : TRUE

teacher_return(ok) == IF ok THEN "True" ELSE "False"

teacher_good_board(B, gs) ==
    LET acc == teacher_groups(gs, 1, [ok |-> TRUE, B |-> B])
    IN  [ret |-> teacher_return(acc.ok), B |-> acc.B]

good_board(B, gs) ==
    IF impl = "student" THEN student_good_board(B, gs) ELSE teacher_good_board(B, gs)

---------------------------------------------------------------------------
(* naked_single *)

\* A variant whose first loop starts at the second tile of the group
student_used_but_first(B, group) ==
    {B.symbol[group[k]] : k \in {n \in 2 .. Len(group) : B.symbol[group[n]] \in DIGITS}}

\* student: used, the symbols of the group that are in DIGITS
student_used(B, group) ==
    {B.symbol[g] : g \in {t \in Range(group) : B.symbol[t] \in DIGITS}}

\* teacher: taken, the symbols of the group that are not OPEN
teacher_taken(B, group) ==
    {B.symbol[g] : g \in {t \in Range(group) : B.symbol[t] # OPEN}}

\* A variant that recomputes the choices of an open tile from the group alone
RECURSIVE constrain_open_recomputed(_, _, _, _)
constrain_open_recomputed(B, group, k, used) ==
    IF k > Len(group)
    THEN B
    ELSE CHOOSE out \in
            {constrain_open_recomputed(next, group, k + 1, used) :
                next \in {IF B.symbol[group[k]] = OPEN
                          THEN [B EXCEPT !.possible[group[k]] = DIGITS \ used]
                          ELSE B}} : TRUE

\* the second loop of naked_single, the same in both modules
RECURSIVE constrain_open(_, _, _, _)
constrain_open(B, group, k, used) ==
    IF k > Len(group)
    THEN B
    ELSE CHOOSE out \in
            {constrain_open(next, group, k + 1, used) :
                next \in {IF B.symbol[group[k]] = OPEN
                          THEN remove_choices(B, group[k], used)
                          ELSE B}} : TRUE

student_naked_single(B, group) == constrain_open(B, group, 1, student_used(B, group))

teacher_naked_single(B, group) == constrain_open(B, group, 1, teacher_taken(B, group))

naked_single(B, group) ==
    IF impl = "student" THEN student_naked_single(B, group)
    ELSE teacher_naked_single(B, group)

---------------------------------------------------------------------------
(* hidden_single *)

\* A variant that skips the first loop
student_to_be_placed_all(B, group) == DIGITS

\* student: to_be_placed after the first loop
student_to_be_placed(B, group) == DIGITS \ {B.symbol[i] : i \in Range(group)}

\* A variant that skips the first loop
teacher_digits_all(B, group) == DIGITS

\* teacher: digits after the first loop
teacher_digits(B, group) ==
    DIGITS \ {B.symbol[t] : t \in {x \in Range(group) : B.symbol[x] # OPEN}}

\* the tiles of the group that can take digit el
Spots(B, group, el) == {k \in 1 .. Len(group) : el \in B.possible[group[k]]}

\* A variant whose second loop does not look at the item's choices
RECURSIVE student_place_any_item(_, _, _, _, _)
student_place_any_item(B, group, k, el, count) ==
    IF k > Len(group)
    THEN B
    ELSE CHOOSE out \in
            {student_place_any_item(next, group, k + 1, el, count) :
                next \in {IF count = 1
                          THEN determine(B, group[k], el)
                          ELSE B}} : TRUE

\* student, lines 190-192: the second loop over the items, count fixed before it
RECURSIVE student_place(_, _, _, _, _)
student_place(B, group, k, el, count) ==
    IF k > Len(group)
    THEN B
    ELSE CHOOSE out \in
            {student_place(next, group, k + 1, el, count) :
                next \in {IF count = 1 /\ el \in B.possible[group[k]]
                          THEN determine(B, group[k], el)
                          ELSE B}} : TRUE

\* A variant that counts one spot too many
student_try_miscounted(B, group, el) ==
    student_place(B, group, 1, el, Cardinality(Spots(B, group, el)) + 1)

student_try(B, group, el) ==
    student_place(B, group, 1, el, Cardinality(Spots(B, group, el)))

\* A variant that places the digit whenever some tile can take it
teacher_try_any(B, group, digit) ==
    LET spots == Spots(B, group, digit)
    IN  IF Cardinality(spots) >= 1
        THEN determine(B, group[CHOOSE k \in spots : \A j \in spots : j <= k], digit)
        ELSE B

\* teacher, lines 187-193: possibility is the last tile that can take digit
teacher_try(B, group, digit) ==
    LET spots == Spots(B, group, digit)
    IN  IF Cardinality(spots) = 1
        THEN determine(B, group[CHOOSE k \in spots : \A j \in spots : j <= k], digit)
        ELSE B

\* the loop over the set of digits; order is the order the set is iterated in
RECURSIVE student_each(_, _, _, _, _)
student_each(B, group, order, n, todo) ==
    IF n > Len(order)
    THEN B
    ELSE CHOOSE out \in
            {student_each(next, group, order, n + 1, todo) :
                next \in {IF order[n] \in todo
                          THEN student_try(B, group, order[n])
                          ELSE B}} : TRUE

RECURSIVE teacher_each(_, _, _, _, _)
teacher_each(B, group, order, n, todo) ==
    IF n > Len(order)
    THEN B
    ELSE CHOOSE out \in
            {teacher_each(next, group, order, n + 1, todo) :
                next \in {IF order[n] \in todo
                          THEN teacher_try(B, group, order[n])
                          ELSE B}} : TRUE

student_hidden_single(B, group, order) ==
    student_each(B, group, order, 1, student_to_be_placed(B, group))

teacher_hidden_single(B, group, order) ==
    teacher_each(B, group, order, 1, teacher_digits(B, group))

hidden_single(B, group, order) ==
    IF impl = "student" THEN student_hidden_single(B, group, order)
    ELSE teacher_hidden_single(B, group, order)

\* Iteration orders of a set of digit strings.  The order follows the strings'
\* hashes, which are drawn when the process starts and stay the same in it:
\* ascending, descending, and rotations of ascending
DigitSeq == <<"1", "2", "3", "4", "5", "6", "7", "8", "9">>

OrderOf(n) ==
    IF n = 2
    THEN [k \in 1 .. Len(DigitSeq) |-> DigitSeq[Len(DigitSeq) + 1 - k]]
    ELSE [k \in 1 .. Len(DigitSeq) |-> DigitSeq[((k + n - 2) % Len(DigitSeq)) + 1]]

Orders == {OrderOf(n) : n \in 1 .. NumOrders}

---------------------------------------------------------------------------
(* The boards handed to prepare *)

\* a complete legal grid
Solution(cell) ==
    DigitSeq[((BlockSize * (cell[1] % BlockSize) + (cell[1] \div BlockSize) + cell[2])
              % Size) + 1]

\* Template t: the tiles that are given (committed to Solution) at the start.
\*  1: every tile; 2: seven tiles of row 0 and one tile of column 7;
\*  3: a third of the tiles; 4: a chequerboard; beyond: other thin patterns
Given(t, cell) ==
    LET r == cell[1]
        c == cell[2]
    IN  CASE t = 1 -> TRUE
          [] t = 2 -> (r = 0 /\ c < 7) \/ (r = 3 /\ c = 7)
          [] t = 3 -> (7 * r + 4 * c) % 9 < 3
          [] t = 4 -> (r + c) % 2 = 0
          [] OTHER -> (r * r + 3 * c + r * c + t) % 5 < 2

\* The tiles Init may overwrite, and what it may write there
TweakCells == {<<6, 8>>, <<6, 7>>}

TweakVals ==
    << [symbol |-> "9",  possible |-> {}],
       [symbol |-> OPEN, possible |-> {"2", "9"}] >>

\* Tile.__init__: an open tile starts with every digit possible
NewTile(t, cell) ==
    IF Given(t, cell)
    THEN [symbol |-> Solution(cell), possible |-> {}]
    ELSE [symbol |-> OPEN, possible |-> DIGITS]

Boards ==
    {[cell \in Cells |->
         IF cell \in TweakCells /\ tw[cell] > 0
         THEN TweakVals[tw[cell]]
         ELSE NewTile(t, cell)] :
       t \in 1 .. NumTemplates, tw \in [TweakCells -> 0 .. Len(TweakVals)]}

BoardOf(sym, poss) == [symbol |-> sym, possible |-> poss]

---------------------------------------------------------------------------
(* The state machine *)

Init ==
    /\ impl \in {"student", "teacher"}
    /\ iterOrder \in Orders
    /\ \E b \in Boards :
          /\ symbol = [cell \in Cells |-> b[cell].symbol]
          /\ possible = [cell \in Cells |-> b[cell].possible]
    /\ listeners = {}
    /\ groups = << >>
    /\ progress = FALSE
    /\ pc = "start"
    /\ gi = 0
    /\ retval = "unset"
    /\ dupCount = NoDuplicates
    /\ calls = 0
    /\ rounds = 0
    /\ progRounds = 0
    /\ commits = 0
    /\ placed = 0
    /\ init0 = BoardOf(symbol, possible)
    /\ conv = BoardOf(symbol, possible)
    /\ pre = BoardOf(symbol, possible)
    /\ round0 = BoardOf(symbol, possible)
    /\ trace = << >>
    /\ refused = 0

\* the current state as a board value, with the event counters at zero
Now == [symbol |-> symbol, possible |-> possible, progress |-> progress,
        determined |-> 0, refused |-> 0, duplicate |-> NoDuplicates]

\* prepare(board)
Prepare ==
    /\ pc = "start"
    /\ groups' = BuildGroups
    /\ listeners' = Cells
    /\ pc' = "ready"
    /\ UNCHANGED <<impl, iterOrder, symbol, possible, progress, gi, retval, dupCount, calls,
                   rounds, progRounds, commits, placed, init0, conv,
                   pre, round0, trace, refused>>

\* good_board()
GoodBoard ==
    /\ pc = "ready"
    /\ LET res == good_board(Now, groups)
       IN  /\ retval' = res.ret
           /\ dupCount' = res.B.duplicate
           /\ symbol' = res.B.symbol
           /\ possible' = res.B.possible
           /\ progress' = res.B.progress
    /\ UNCHANGED <<impl, iterOrder, listeners, groups, pc, gi, calls, rounds, progRounds,
                   commits, placed, init0, conv, pre, round0, trace, refused>>

\* A variant that enters the loop with the flag false
SolveEnterFlagFalse ==
    /\ pc = "ready"
    /\ calls < MaxSolveCalls
    /\ progress' = FALSE
    /\ pc' = "test"
    /\ calls' = calls + 1
    /\ rounds' = 0
    /\ progRounds' = 0
    /\ commits' = 0
    /\ placed' = 0
    /\ retval' = "unset"
    /\ dupCount' = NoDuplicates
    /\ trace' = << >>
    /\ refused' = 0
    /\ UNCHANGED <<impl, iterOrder, symbol, possible, listeners, groups, gi, init0, conv,
                   pre, round0>>

\* solve(), lines 131-132: progress = True
SolveEnter ==
    /\ pc = "ready"
    /\ calls < MaxSolveCalls
    /\ progress' = TRUE
    /\ pc' = "test"
    /\ calls' = calls + 1
    /\ rounds' = 0
    /\ progRounds' = 0
    /\ commits' = 0
    /\ placed' = 0
    /\ retval' = "unset"
    /\ dupCount' = NoDuplicates
    /\ trace' = << >>
    /\ refused' = 0
    /\ UNCHANGED <<impl, iterOrder, symbol, possible, listeners, groups, gi, init0, conv,
                   pre, round0>>

\* A variant that does not reset the flag at the top of the round
RoundStartNoReset ==
    /\ pc = "test"
    /\ progress
    /\ progress' = progress
    /\ gi' = 1
    /\ pc' = "naked"
    /\ rounds' = rounds + 1
    /\ progRounds' = IF rounds > 0 THEN progRounds + 1 ELSE progRounds
    /\ round0' = BoardOf(symbol, possible)
    /\ trace' = << >>
    /\ UNCHANGED <<impl, iterOrder, symbol, possible, listeners, groups, retval,
                   dupCount, calls, commits, placed, init0, conv, pre, refused>>

\* while(progress) found true: progress = False, and the for loop starts
RoundStart ==
    /\ pc = "test"
    /\ progress
    /\ progress' = FALSE
    /\ gi' = 1
    /\ pc' = "naked"
    /\ rounds' = rounds + 1
    /\ progRounds' = IF rounds > 0 THEN progRounds + 1 ELSE progRounds
    /\ round0' = BoardOf(symbol, possible)
    /\ trace' = << >>
    /\ UNCHANGED <<impl, iterOrder, symbol, possible, listeners, groups, retval, dupCount,
                   calls, commits, placed, init0, conv, pre, refused>>

\* while(progress) found false: solve() returns
SolveExit ==
    /\ pc = "test"
    /\ ~progress
    /\ pc' = "ready"
    /\ conv' = BoardOf(symbol, possible)
    /\ UNCHANGED <<impl, iterOrder, symbol, possible, listeners, groups, progress, gi, retval,
                   dupCount, calls, rounds, progRounds, commits, placed, init0,
                   pre, round0, trace, refused>>

\* naked_single(group)
NakedSingle ==
    /\ pc = "naked"
    /\ LET B == naked_single(Now, groups[gi])
       IN  /\ symbol' = B.symbol
           /\ possible' = B.possible
           /\ progress' = B.progress
           /\ commits' = commits + B.determined
           /\ refused' = refused + B.refused
    /\ pre' = BoardOf(symbol, possible)
    /\ trace' = Append(trace, <<"naked_single", gi>>)
    /\ pc' = "hidden"
    /\ UNCHANGED <<impl, iterOrder, listeners, groups, gi, retval, dupCount, calls, rounds,
                   progRounds, placed, init0, conv, round0>>

\* A variant whose for loop stops one group early
HiddenSingleShortLoop ==
    /\ pc = "hidden"
    /\ LET B == hidden_single(Now, groups[gi], iterOrder)
       IN  /\ symbol' = B.symbol
           /\ possible' = B.possible
           /\ progress' = B.progress
           /\ commits' = commits + B.determined
           /\ placed' = placed + B.determined
           /\ refused' = refused + B.refused
    /\ pre' = BoardOf(symbol, possible)
    /\ trace' = Append(trace, <<"hidden_single", gi>>)
    /\ IF gi < Len(groups) - 1
       THEN gi' = gi + 1 /\ pc' = "naked"
       ELSE gi' = gi /\ pc' = "test"
    /\ UNCHANGED <<impl, iterOrder, listeners, groups, retval, dupCount, calls, rounds,
                   progRounds, init0, conv, round0>>

\* hidden_single(group), and the for loop moves on
HiddenSingle ==
    /\ pc = "hidden"
    /\ LET B == hidden_single(Now, groups[gi], iterOrder)
       IN  /\ symbol' = B.symbol
           /\ possible' = B.possible
           /\ progress' = B.progress
           /\ commits' = commits + B.determined
           /\ placed' = placed + B.determined
           /\ refused' = refused + B.refused
    /\ pre' = BoardOf(symbol, possible)
    /\ trace' = Append(trace, <<"hidden_single", gi>>)
    /\ IF gi < Len(groups)
       THEN gi' = gi + 1 /\ pc' = "naked"
       ELSE gi' = gi /\ pc' = "test"
    /\ UNCHANGED <<impl, iterOrder, listeners, groups, retval, dupCount, calls, rounds,
                   progRounds, init0, conv, round0>>

Next ==
    \/ Prepare
    \/ GoodBoard
    \/ SolveEnter
    \/ RoundStart
    \/ SolveExit
    \/ NakedSingle
    \/ HiddenSingle

Spec == Init /\ [][Next]_vars

\* the steps inside solve()
SolveStep == RoundStart \/ SolveExit \/ NakedSingle \/ HiddenSingle

\* solve() is synchronous and has no suspension points: once entered, its next
\* step is always taken.  Nothing obliges the caller to call anything.
FairSpec == Spec /\ WF_vars(SolveStep)

---------------------------------------------------------------------------
(* Properties *)

\* group g holds the same committed symbol in two of its tiles
HasRepeat(sym, g) ==
    \E j, k \in 1 .. Len(g) : j < k /\ sym[g[j]] # OPEN /\ sym[g[j]] = sym[g[k]]

Legal(sym) == \A n \in 1 .. Len(BuildGroups) : ~HasRepeat(sym, BuildGroups[n])

\* the tile's committed symbol is also in another tile of one of its groups
IsDuplicate(sym, cell) ==
    /\ sym[cell] # OPEN
    /\ \E n \in 1 .. Len(BuildGroups) :
          /\ cell \in Range(BuildGroups[n])
          /\ \E other \in Range(BuildGroups[n]) : other # cell /\ sym[other] = sym[cell]

\* C1: once prepared, good_board() returns the boolean True exactly when no
\* group holds a committed symbol twice, and the boolean False when one does.
C1_ReturnsBoolean ==
    retval # "unset" =>
        /\ (retval = "True") <=> Legal(symbol)
        /\ ~Legal(symbol) => retval = "False"

\* C2: good_board() announces "duplicate" on exactly the tiles whose committed
\* symbol is also in another tile of one of their groups: all of them (every
\* occurrence of a symbol that is there three times), no open tile, and no tile
\* whose symbol is unique in its three groups.
C2_FlagsExactlyDuplicates ==
    retval # "unset" =>
        \A cell \in Cells : (dupCount[cell] > 0) <=> IsDuplicate(symbol, cell)

\* a row holds one symbol three times and all three tiles are flagged, while
\* an open tile and a committed tile with a unique symbol are not
C2_Witness ==
    /\ retval # "unset"
    /\ \E n \in 1 .. Len(groups) : \E a, b, c \in Range(groups[n]) :
          /\ a # b /\ b # c /\ a # c
          /\ symbol[a] # OPEN /\ symbol[a] = symbol[b] /\ symbol[b] = symbol[c]
          /\ dupCount[a] > 0 /\ dupCount[b] > 0 /\ dupCount[c] > 0
    /\ \E cell \in Cells : symbol[cell] # OPEN /\ dupCount[cell] = 0

\* the sum of the candidate-set sizes plus the number of open tiles
Measure(b) ==
    Cardinality({cd \in Cells \X DIGITS : cd[2] \in b.possible[cd[1]]})
    + Cardinality({cell \in Cells : b.symbol[cell] = OPEN})

InSolve == pc \in {"test", "naked", "hidden"}

\* C3: solve() always terminates, whatever the board: the loop reaches a round
\* that leaves the flag false and exits; and the rounds that report progress
\* are no more than the sum of the candidate-set sizes plus the number of open
\* tiles of the board solve() was called on (conv is that board: nothing
\* changes a tile between two solve() calls).
C3_Terminates ==
    /\ [](InSolve => <>(pc = "ready" /\ ~progress))
    /\ [](InSolve => progRounds <= Measure(conv))

\* a solve() call that went through three rounds with progress has returned,
\* leaving open tiles behind
C3_Witness ==
    /\ pc = "ready"
    /\ calls = 1
    /\ progRounds >= 3
    /\ \E cell \in Cells : symbol[cell] = OPEN

\* C4 as stated: a second solve() on a board on which solve() has converged
\* changes no tile, and the progress flag never becomes true.
C4_FlagNeverTrue ==
    calls >= 2 =>
        /\ BoardOf(symbol, possible) = conv
        /\ ~progress

\* C4 as amended: a second solve() on a board on which solve() has converged
\* changes no tile, and apart from solve()'s own "progress = True" on entry
\* (before the first round) the progress flag never becomes true.
C4_SecondSolveNoOp ==
    calls >= 2 =>
        /\ BoardOf(symbol, possible) = conv
        /\ progress => (pc = "test" /\ rounds = 0)
        /\ commits = 0
        /\ rounds <= 1

\* the second solve() has returned, on a board the first one had to work on
\* and could not finish
C4_Witness ==
    /\ calls = 2
    /\ pc = "ready"
    /\ rounds = 1
    /\ conv # init0
    /\ \E cell \in Cells : symbol[cell] = OPEN /\ Cardinality(possible[cell]) > 1

\* C5: every step during solve() is monotonic: no tile's candidate set gains a
\* symbol, and a committed tile neither becomes open again nor changes symbol.
C5_Monotonic ==
    [][\A cell \in Cells :
          /\ possible'[cell] \subseteq possible[cell]
          /\ symbol[cell] # OPEN => symbol'[cell] = symbol[cell]]_vars

\* solve() is under way, has committed tiles and has narrowed the choices of
\* a tile that is still open
C5_Witness ==
    /\ InSolve
    /\ commits > 0
    /\ \E cell \in Cells :
          /\ symbol[cell] = OPEN
          /\ possible[cell] # init0.possible[cell]
          /\ possible[cell] # {}

\* C6: prepare builds 27 groups of 9 distinct tiles: the 9 rows, then the 9
\* columns, then the 9 blocks in row-major order of their top-left corner;
\* every tile is in exactly one row group, one column group and one block
\* group; and the groups name the board's own tiles, which prepare leaves as
\* they were.
C6_Groups ==
    pc # "start" =>
        /\ Len(groups) = 27
        /\ \A n \in 1 .. Len(groups) :
              /\ Len(groups[n]) = 9
              /\ Cardinality(Range(groups[n])) = 9
              /\ Range(groups[n]) \subseteq Cells
        /\ \A cell \in Cells :
              /\ groups[cell[1] + 1][cell[2] + 1] = cell
              /\ groups[10 + cell[2]][cell[1] + 1] = cell
              /\ groups[19 + 3 * (cell[1] \div 3) + (cell[2] \div 3)]
                       [3 * (cell[1] % 3) + (cell[2] % 3) + 1] = cell
        /\ \A kind \in {1 .. 9, 10 .. 18, 19 .. 27} :
              /\ UNION {Range(groups[n]) : n \in kind} = Cells
              /\ \A n, m \in kind :
                    n # m => Range(groups[n]) \cap Range(groups[m]) = {}
        /\ calls = 0 => BoardOf(symbol, possible) = init0

\* prepare has run on a board with committed and open tiles, and nothing else
\* has been called
C6_Witness ==
    /\ pc = "ready"
    /\ calls = 0
    /\ retval = "unset"
    /\ \E cell \in Cells : symbol[cell] = OPEN
    /\ \E cell \in Cells : symbol[cell] # OPEN

\* the board handed to prepare has no open tile and no repeated symbol
FullAndLegal(b) ==
    /\ \A cell \in Cells : b.symbol[cell] # OPEN
    /\ Legal(b.symbol)

\* C7: on a fully committed, legal board good_board() returns True, and solve()
\* commits nothing, changes no tile and exits after exactly one round, in
\* which the progress flag stays false.
C7_SolvedBoard ==
    FullAndLegal(init0) =>
        /\ retval # "unset" => retval = "True"
        /\ BoardOf(symbol, possible) = init0
        /\ commits = 0
        /\ rounds <= 1
        /\ (rounds = 1 => ~progress)
        /\ (calls >= 1 /\ pc = "ready" => rounds = 1)

\* solve() has returned on a fully committed, legal board, and good_board()
\* has been called after it
C7_Witness ==
    /\ FullAndLegal(init0)
    /\ calls = 1
    /\ pc = "ready"
    /\ rounds = 1
    /\ retval = "True"

\* the symbols committed in the group solve() is at
Committed == {symbol[t] : t \in Range(groups[gi])} \ {OPEN}

\* the open tiles of that group that still list digit d
OpenWith(d) == {t \in Range(groups[gi]) : symbol[t] = OPEN /\ d \in possible[t]}

\* C8 as stated: if a digit is a remaining candidate of exactly one open tile
\* of the group, that tile is committed to the digit after hidden_single(group).
C8_AsStated ==
    [][pc = "hidden" =>
          \A d \in DIGITS : \A c \in Range(groups[gi]) :
              OpenWith(d) = {c} => symbol'[c] = d]_vars

\* C8 as amended: if a digit that no tile of the group is committed to is a
\* remaining candidate of exactly one open tile of the group, that tile is
\* committed after hidden_single(group): to that digit when it is the tile's
\* only candidate not committed in the group, and otherwise to that digit or
\* to another of the tile's candidates not committed in the group.
C8_Forced ==
    [][pc = "hidden" =>
          \A d \in DIGITS \ Committed : \A c \in Range(groups[gi]) :
              OpenWith(d) = {c} =>
                  /\ symbol'[c] \in possible[c] \ Committed
                  /\ possible[c] \ Committed = {d} => symbol'[c] = d]_vars

\* hidden_single has committed a tile during this solve() call
C8_Witness ==
    /\ InSolve
    /\ placed > 0

\* hidden_single on the current group leaves the same tiles under both orders
SameResult(o1, o2) ==
    LET a == hidden_single(Now, groups[gi], o1)
        b == hidden_single(Now, groups[gi], o2)
    IN  a.symbol = b.symbol /\ a.possible = b.possible

\* the digits hidden_single would place in the current group, as it finds it
Forced == {d \in DIGITS \ Committed : Cardinality(OpenWith(d)) = 1}

\* no tile that is the only place for a digit lists another digit that is not
\* committed in the group
NoSharedTarget ==
    \A d \in Forced : \A c \in OpenWith(d) : possible[c] \ Committed = {d}

\* C9 as stated: the order in which hidden_single tries the symbols does not
\* change the state it leaves the group in.
C9_AsStated ==
    pc = "hidden" => \A o1, o2 \in Orders : SameResult(o1, o2)

\* C9 as amended: the order in which hidden_single tries the symbols does not
\* change the state it leaves the group in, provided that no tile that is the
\* only candidate tile of a not-yet-committed symbol has another
\* not-yet-committed symbol among its candidates.
C9_OrderIndependent ==
    (pc = "hidden" /\ NoSharedTarget) => \A o1, o2 \in Orders : SameResult(o1, o2)

\* hidden_single is about to place two digits, on tiles that list nothing else
C9_Witness ==
    /\ pc = "hidden"
    /\ NoSharedTarget
    /\ Cardinality(Forced) >= 2

\* the complete grid Solution extends board b
Extends(b) ==
    \A cell \in Cells :
        IF b.symbol[cell] = OPEN
        THEN Solution(cell) \in b.possible[cell]
        ELSE b.symbol[cell] = Solution(cell)

\* C10 as stated: from any board for which good_board() holds, every state
\* reached during solve() still has no group with a symbol committed twice.
C10_AsStated == Legal(init0.symbol) => Legal(symbol)

\* C10 as amended: from any board that a complete legal grid extends (the grid
\* agrees with every committed tile and gives every open tile one of its
\* candidates), every state reached during solve() still has no group with a
\* symbol committed twice.
C10_LegalKept == Extends(init0) => Legal(symbol)

\* solve() has returned after committing tiles of a board the grid extends
C10_Witness ==
    /\ Extends(init0)
    /\ calls >= 1
    /\ pc = "ready"
    /\ conv.symbol # init0.symbol

\* the symbols committed in group g of board b
CommittedIn(b, g) == {b.symbol[t] : t \in Range(g)} \ {OPEN}

\* what is left of a tile's choices without the symbols committed in g
Left(b, g, cell) == b.possible[cell] \ CommittedIn(b, g)

InRound == InSolve /\ rounds > 0

\* some tile has been narrowed or committed since the top of the round
ChangedInRound == BoardOf(symbol, possible) # round0

\* one round: naked_single then hidden_single on each of the 27 groups in turn
FullRound ==
    [k \in 1 .. 2 * Len(BuildGroups) |->
        <<IF k % 2 = 1 THEN "naked_single" ELSE "hidden_single", (k + 1) \div 2>>]

\* C12: progress detection is exact per round.  At every point of a round the
\* flag is true exactly when a tile has been narrowed or committed since the
\* top of the round; at the end of a round solve() exits exactly when the flag
\* is false, and otherwise starts another round, which runs over all 27
\* groups before the flag is read again.
C12_ProgressExact ==
    /\ [](InRound => (progress <=> ChangedInRound))
    /\ [][pc = "test" =>
             IF progress
             THEN pc' = "naked" /\ gi' = 1 /\ rounds' = rounds + 1
             ELSE pc' = "ready" /\ rounds' = rounds]_vars
    /\ ((pc = "test" /\ progress) ~> (pc = "naked" /\ trace = << >>))
    /\ ((pc = "naked" /\ trace = << >>) ~> (pc = "test" /\ trace = FullRound))

\* solve() is at the end of a round that followed a round with progress, and
\* in this one no tile was narrowed or committed
C12_Witness ==
    /\ pc = "test"
    /\ rounds >= 2
    /\ progRounds >= 1
    /\ ~progress
    /\ ~ChangedInRound
    /\ conv # BoardOf(symbol, possible)

\* hidden_single on the current group, stopped after the first n symbols of
\* its iteration over the digits
AfterTry(n) == hidden_single(Now, groups[gi], SubSeq(iterOrder, 1, n))

\* the tiles that differ between boards b and a
Touched(b, a) ==
    {cell \in Cells : a.symbol[cell] # b.symbol[cell] \/ a.possible[cell] # b.possible[cell]}

\* trying digit d on group g took board b to board a: a tile is touched only
\* if d is committed nowhere in g and the tile is the only one of g whose
\* choices hold d, and then it was open and is committed to d
TryIsSound(b, a, g, d) ==
    LET spots == {cell \in Range(g) : d \in b.possible[cell]}
    IN  /\ Cardinality(spots) # 1 => Touched(b, a) = {}
        /\ \A c \in Touched(b, a) :
              /\ d \notin CommittedIn(b, g)
              /\ spots = {c}
              /\ b.symbol[c] = OPEN
              /\ a.symbol[c] = d

\* C13: every commit the tactics make during solve() is on a tile that is open
\* at that moment, with a symbol that is among the tile's choices at that
\* moment (no determine call is turned down by a tile); and hidden_single
\* commits symbol d to tile c only if d is committed nowhere in the group and c
\* is the only tile of the group whose choices hold d, and changes no tile for
\* d when no tile or more than one tile can take d.
C13_CommitsAreSound ==
    /\ refused = 0
    /\ InSolve =>
          \A cell \in Cells :
              symbol[cell] # pre.symbol[cell] =>
                  pre.symbol[cell] = OPEN /\ symbol[cell] \in pre.possible[cell]
    /\ pc = "hidden" =>
          \A n \in 1 .. Len(iterOrder) :
              /\ AfterTry(n).refused = 0
              /\ TryIsSound(AfterTry(n - 1), AfterTry(n), groups[gi], iterOrder[n])

\* hidden_single has just committed a tile, in a group where another symbol
\* still has several tiles to go to
C13_Witness ==
    /\ InSolve
    /\ trace # << >>
    /\ trace[Len(trace)][1] = "hidden_single"
    /\ \E c \in Range(groups[trace[Len(trace)][2]]) :
          pre.symbol[c] = OPEN /\ symbol[c] # OPEN
    /\ \E d \in DIGITS :
          Cardinality({c \in Range(groups[trace[Len(trace)][2]]) : d \in possible[c]}) > 1

\* Solution with rows a and b exchanged
SwapRows(a, b) ==
    [cell \in Cells |->
        Solution(<<IF cell[1] = a THEN b ELSE IF cell[1] = b THEN a ELSE cell[1],
                   cell[2]>>)]

\* complete grids: Solution, and Solution with two rows of one band exchanged
Grids ==
    {[cell \in Cells |-> Solution(cell)]}
    \cup {SwapRows(BlockSize * band + a, BlockSize * band + b) :
             band \in 0 .. BlockSize - 1,
             a \in 0 .. BlockSize - 1, b \in 0 .. BlockSize - 1}

\* those of them that are legal (all are)
LegalGrids == {S \in Grids : Legal(S)}

\* the complete grid S extends board b
ExtendsBy(S, b) ==
    \A cell \in Cells :
        IF b.symbol[cell] = OPEN
        THEN S[cell] \in b.possible[cell]
        ELSE b.symbol[cell] = S[cell]

\* C14: if a complete legal grid S extends the board handed to prepare (S
\* agrees with every committed tile and gives every open tile one of its
\* choices), S extends every state reached during solve(): every committed
\* tile holds S's symbol and every open tile's choices still hold S's symbol.
C14_Sound ==
    \A S \in LegalGrids :
        ExtendsBy(S, init0) => ExtendsBy(S, BoardOf(symbol, possible))

\* solve() has returned after committing tiles of a board that two different
\* complete legal grids extend, leaving open tiles
C14_Witness ==
    /\ calls >= 1
    /\ pc = "ready"
    /\ conv.symbol # init0.symbol
    /\ \E cell \in Cells : symbol[cell] = OPEN
    /\ \E S1, S2 \in LegalGrids :
          /\ S1 # S2
          /\ ExtendsBy(S1, init0) /\ ExtendsBy(S1, conv)
          /\ ExtendsBy(S2, init0) /\ ExtendsBy(S2, conv)

\* event names a tile may announce, and one that no tile announces
EventNames == {"determined", "constrained", "duplicate", "no_choices", "other"}

\* the flag after progress_listener(tile, event) is called with the flag at flag
FlagAfter(flag, cell, event) ==
    progress_listener([Now EXCEPT !.progress = flag], cell, event).progress

\* C15: progress_listener sets the flag on "determined" and on "constrained"
\* and leaves it as it is on any other event, "duplicate" among them; and
\* good_board() leaves the flag, every tile's symbol and every tile's choices
\* as they are.
C15_DuplicateIsNotProgress ==
    /\ [](\A cell \in Cells : \A event \in EventNames : \A flag \in BOOLEAN :
            FlagAfter(flag, cell, event) =
                IF event \in {"determined", "constrained"} THEN TRUE ELSE flag)
    /\ [][(pc = "ready" /\ pc' = "ready") =>
             UNCHANGED <<progress, symbol, possible>>]_vars

\* good_board() has announced "duplicate" on tiles of a board with open tiles,
\* and the flag is false
C15_Witness ==
    /\ pc = "ready"
    /\ retval # "unset"
    /\ \E cell \in Cells : dupCount[cell] > 0
    /\ \E cell \in Cells : symbol[cell] = OPEN
    /\ ~progress

\* the n-th group in the order rows 0-8, columns 0-8, blocks in row-major order
ExpectedGroup(n) ==
    IF n <= 9
    THEN [k \in 1 .. 9 |-> <<n - 1, k - 1>>]
    ELSE IF n <= 18
    THEN [k \in 1 .. 9 |-> <<k - 1, n - 10>>]
    ELSE [k \in 1 .. 9 |->
            <<3 * ((n - 19) \div 3) + ((k - 1) \div 3),
              3 * ((n - 19) % 3) + ((k - 1) % 3)>>]

\* C16: every round first resets the flag to false; it then calls naked_single
\* and after it hidden_single on each of the 27 groups, one group after the
\* other and each group once, in the order prepare built them in (rows 0-8,
\* columns 0-8, blocks in row-major order); and the flag is read only when all
\* 27 groups have been visited.
C16_RoundStructure ==
    /\ [](InRound =>
            /\ \A n \in 1 .. 27 : groups[n] = ExpectedGroup(n)
            /\ Len(trace) <= Len(FullRound)
            /\ trace = SubSeq(FullRound, 1, Len(trace))
            /\ pc = "naked" => Len(trace) = 2 * (gi - 1)
            /\ pc = "hidden" => Len(trace) = 2 * gi - 1
            /\ pc = "test" => trace = FullRound)
    /\ [][(pc = "test" /\ pc' = "naked") => (progress' = FALSE /\ gi' = 1)]_vars

\* the flag is read true at the end of the second round of a solve() call
C16_Witness ==
    /\ pc = "test"
    /\ rounds = 2
    /\ trace = FullRound
    /\ progress

\* boards a and b hold the same tiles
SameTiles(a, b) == a.symbol = b.symbol /\ a.possible = b.possible

\* the tiles "duplicate" was announced on
Flagged(B) == {cell \in Cells : B.duplicate[cell] > 0}

\* C17: the two modules agree.  On every group state naked_single of the
\* student module leaves the same symbols and choices as naked_single of the
\* teacher module, and so does hidden_single when both try the symbols in the
\* same order; and on every board both good_board functions announce
\* "duplicate" on the same set of tiles.
C17_Agree ==
    /\ (pc = "naked" \/ pc = "hidden") =>
          /\ SameTiles(student_naked_single(Now, groups[gi]),
                       teacher_naked_single(Now, groups[gi]))
          /\ \A o \in Orders :
                SameTiles(student_hidden_single(Now, groups[gi], o),
                          teacher_hidden_single(Now, groups[gi], o))
    /\ (pc = "ready" \/ pc = "test") =>
          Flagged(student_good_board(Now, groups).B)
              = Flagged(teacher_good_board(Now, groups).B)

\* a board with a repeated symbol, on a group where naked_single narrows a
\* tile and hidden_single then places a symbol, in both modules
C17_Witness ==
    /\ pc = "naked"
    /\ ~Legal(symbol)
    /\ student_naked_single(Now, groups[gi]).possible # possible
    /\ teacher_hidden_single(teacher_naked_single(Now, groups[gi]),
                             groups[gi], iterOrder).determined > 0
    /\ student_hidden_single(student_naked_single(Now, groups[gi]),
                             groups[gi], iterOrder).determined > 0

=============================================================================
